---- MODULE Spec2Model ----
(***************************************************************************)
(* Snake game (snake_game.py) and the webcam gesture detector             *)
(* (camera_movement.py).  Coordinates are pixels, as in the source; time  *)
(* is counted in tenths of a second.                                      *)
(***************************************************************************)
EXTENDS Integers, Sequences, FiniteSets, TLC

VARIABLES
    state,          \* which loop of run_game is active: START, PLAYING, GAME_OVER, TERMINAL
    direction,      \* snake_game.direction (module global)
    snake,          \* snake.coordinates, head first, each cell <<x, y>>
    food,           \* <<food.x, food.y>>
    ticks,          \* iterations of the gameplay loop done in this round
    events_used,    \* keyboard/window events delivered in this round
    harness,        \* which program is running: "game", "main", "unit", "detector"
    \* ---- record of the last gameplay tick (history) ----
    pre_snake,      \* snake.coordinates before the tick's move()
    pre_food,       \* the food cell before the tick
    moved_snake,    \* snake.coordinates right after the last move()
    move_dir,       \* direction used by the last move() of any round, "None" before the first
    prev_move_dir,  \* direction used by the move before it in this round
    collided,       \* the last tick left the loop through check_collision
    eaten,          \* food consumptions in this round
    draws,          \* Food() constructions in this round
    tick_arrows,    \* the last tick handled an arrow key (recorded when main.py runs)
    tick_kbd_dir,   \* direction after the last tick's event loop (recorded when main.py runs)
    tick_dir0,      \* direction when the last tick began (recorded when main.py runs)
    cause,          \* what made the last change of screen
    window_closed,  \* a QUIT event has been handled
    \* ---- record of the last change_direction call of the unit harness ----
    pre_direction,
    request,
    \* ---- camera_movement.py ----
    last_dir,       \* camera_movement.last_dir
    last_time,      \* camera_movement.last_time
    cap_open,       \* the capture device has not been released
    clock,          \* time.time() at the last call
    \* ---- record of the last get_direction call (history) ----
    calls,          \* calls made so far
    call_frame,     \* what cap.read() and the contour search gave
    call_key,       \* the key cv2.waitKey reported
    pre_last_dir,   \* last_dir before the call
    pre_last_time,  \* last_time before the call
    ret,            \* the call's return value
    call_new_dir,   \* new_dir of the call
    accepts         \* times at which last_dir was written, oldest first

gvars == <<state, direction, snake, food, ticks, events_used, harness,
           pre_snake, pre_food, moved_snake, move_dir, prev_move_dir, collided,
           eaten, draws, tick_arrows, tick_kbd_dir, tick_dir0, cause, window_closed,
           pre_direction, request>>

dvars == <<last_dir, last_time, cap_open, clock, calls, call_frame, call_key,
           pre_last_dir, pre_last_time, ret, call_new_dir, accepts>>

vars == <<gvars, dvars>>

----------------------------------------------------------------------------
\* Program constants (snake_game.py)
GAME_WIDTH == 600
GAME_HEIGHT == 400
SPACE_SIZE == 20
BODY_PARTS == 2
SPEED == 2

\* Bounds of the model
MaxTicks == 6          \* gameplay ticks explored per round
MaxRoundEvents == 2    \* events delivered during one round of play
FoodRadius == 1        \* food is drawn within this many steps of the start cell
MaxLen == 3            \* longest snake handed to move() by the unit harness
StartTime == 4         \* time.time() when the detector is first called
MaxTime == 12          \* the clock is explored up to here
MaxDt == 4             \* longest time between two get_direction calls
MaxMainTime == 14      \* the clock is explored up to here when main.py runs
MaxMainEvents == 1     \* events delivered during one round when main.py runs

\* Program constants (camera_movement.py)
DEBOUNCE == 3          \* 0.3 s
FRAME_W == 320
FRAME_H == 240
MIN_AREA == 300

None == "None"
Directions == {"up", "down", "left", "right"}
Requests == Directions \cup {None}

\* pygame events: window close, key presses, and any other event
Events == {"QUIT", "K_UP", "K_DOWN", "K_LEFT", "K_RIGHT",
           "K_SPACE", "K_r", "K_q", "OTHER"}

----------------------------------------------------------------------------
\* Python helpers

\* range(start, stop, step) / random.randrange(start, stop, step), step > 0
randrange(start, stop, step) ==
    {start + k * step : k \in 0 .. ((stop - start - 1) \div step)}

\* list.insert(0, x)
insert0(l, x) == <<x>> \o l

\* list.pop()
pop(l) == SubSeq(l, 1, Len(l) - 1)

\* x in l
contains(l, x) == \E i \in 1 .. Len(l) : l[i] = x

\* l[1:]
tail1(l) == SubSeq(l, 2, Len(l))

----------------------------------------------------------------------------
\* Snake

\* Snake.__init__
Snake_init == [i \in 1 .. BODY_PARTS |-> <<100 - (i - 1) * SPACE_SIZE, 100>>]

\* the movement vector table of Snake.move
vector(dir) ==
    CASE dir = "up"    -> <<0, 0 - SPACE_SIZE>>
      [] dir = "down"  -> <<0, SPACE_SIZE>>
      [] dir = "left"  -> <<0 - SPACE_SIZE, 0>>
      [] dir = "right" -> <<SPACE_SIZE, 0>>

move_keeps_tail(coords, dir) ==
    insert0(coords, <<coords[1][1] + vector(dir)[1], coords[1][2] + vector(dir)[2]>>)

move_two_cells(coords, dir) ==
    pop(insert0(coords, <<coords[1][1] + 2 * vector(dir)[1],
                          coords[1][2] + 2 * vector(dir)[2]>>))

\* Snake.move: insert the new head, drop the tail
move(coords, dir) ==
    pop(insert0(coords, <<coords[1][1] + vector(dir)[1], coords[1][2] + vector(dir)[2]>>))

grow_twice(coords) == Append(Append(coords, coords[Len(coords)]), coords[Len(coords)])

\* Snake.grow: duplicate the last segment
grow(coords) == Append(coords, coords[Len(coords)])

\* Food.__init__: the cells random.randrange can produce
FoodAll == {<<x, y>> : x \in randrange(0, GAME_WIDTH, SPACE_SIZE),
                       y \in randrange(0, GAME_HEIGHT, SPACE_SIZE)}

abs(n) == IF n < 0 THEN 0 - n ELSE n

\* the draws explored: those within FoodRadius steps of the start cell
FoodCells == {c \in FoodAll :
                abs(c[1] - 100) + abs(c[2] - 100) <= FoodRadius * SPACE_SIZE}

----------------------------------------------------------------------------
\* Direction handling

opposites == [d \in Directions |->
                CASE d = "up"    -> "down"
                  [] d = "down"  -> "up"
                  [] d = "left"  -> "right"
                  [] d = "right" -> "left"]

change_direction_unguarded(dir, new_dir) ==
    IF new_dir # None THEN new_dir ELSE dir

\* change_direction: returns the new value of the global
change_direction(dir, new_dir) ==
    IF new_dir # None /\ opposites[dir] # new_dir THEN new_dir ELSE dir

\* the keys dict of run_game, with dict.get's default
keys_get(key) ==
    CASE key = "K_UP"    -> "up"
      [] key = "K_DOWN"  -> "down"
      [] key = "K_LEFT"  -> "left"
      [] key = "K_RIGHT" -> "right"
      [] OTHER           -> None

IsKeyDown(e) == e \notin {"QUIT", "OTHER"}

----------------------------------------------------------------------------
\* Collision detection

check_collision_walls_only(coords) ==
    \/ coords[1][1] < 0
    \/ coords[1][1] >= GAME_WIDTH
    \/ coords[1][2] < 0
    \/ coords[1][2] >= GAME_HEIGHT

check_collision_open_top(coords) ==
    \/ coords[1][1] < 0
    \/ coords[1][1] >= GAME_WIDTH
    \/ coords[1][2] >= GAME_HEIGHT
    \/ contains(tail1(coords), coords[1])

check_collision_past_right_edge(coords) ==
    \/ coords[1][1] < 0
    \/ coords[1][1] > GAME_WIDTH
    \/ coords[1][2] < 0
    \/ coords[1][2] >= GAME_HEIGHT
    \/ contains(tail1(coords), coords[1])

\* check_collision: wall, then body
check_collision(coords) ==
    \/ coords[1][1] < 0
    \/ coords[1][1] >= GAME_WIDTH
    \/ coords[1][2] < 0
    \/ coords[1][2] >= GAME_HEIGHT
    \/ contains(tail1(coords), coords[1])

----------------------------------------------------------------------------
\* Gesture detector (camera_movement.py)

\* A frame: whether cap.read() gave one, and the contours found in it, each
\* given by its area and bounding rectangle.
NoFrame == [ok |-> FALSE, contours |-> <<>>]

Frame(contours) == [ok |-> TRUE, contours |-> contours]

Blob(cx, cy, area) == [area |-> area, x |-> cx - 10, y |-> cy - 10, cw |-> 21, ch |-> 21]

Centres == {<<79, 120>>, <<80, 120>>, <<160, 120>>, <<240, 120>>, <<241, 120>>,
            <<160, 59>>, <<160, 60>>, <<160, 180>>, <<160, 181>>,
            <<79, 59>>, <<241, 181>>}

Frames ==
    {NoFrame, Frame(<<>>)}
    \cup {Frame(<<Blob(c[1], c[2], MIN_AREA + 1)>>) : c \in Centres}
    \cup {Frame(<<Blob(79, 120, MIN_AREA)>>),
          Frame(<<Blob(79, 120, MIN_AREA), Blob(160, 120, MIN_AREA + 1)>>),
          Frame(<<Blob(241, 120, MIN_AREA + 1), Blob(79, 120, MIN_AREA + 200)>>),
          Frame(<<Blob(79, 120, MIN_AREA + 1), Blob(241, 120, MIN_AREA + 1)>>)}

WaitKeys == {"q", None}

\* max(contours, key=cv2.contourArea): the first contour of the largest area
largest(contours) ==
    contours[CHOOSE i \in 1 .. Len(contours) :
                /\ \A j \in 1 .. Len(contours) : contours[j].area <= contours[i].area
                /\ \A j \in 1 .. i - 1 : contours[j].area < contours[i].area]

classify_edge_is_outside(cx, cy, w, h) ==
    LET margin_x == w \div 4
        margin_y == h \div 4
        left_band == margin_x
        right_band == w - margin_x
        top_band == margin_y
        bottom_band == h - margin_y
    IN  IF cx <= left_band THEN "left"
        ELSE IF cx >= right_band THEN "right"
        ELSE IF cy <= top_band THEN "up"
        ELSE IF cy >= bottom_band THEN "down"
        ELSE None

classify_vertical_first(cx, cy, w, h) ==
    LET margin_x == w \div 4
        margin_y == h \div 4
        left_band == margin_x
        right_band == w - margin_x
        top_band == margin_y
        bottom_band == h - margin_y
    IN  IF cy < top_band THEN "up"
        ELSE IF cy > bottom_band THEN "down"
        ELSE IF cx < left_band THEN "left"
        ELSE IF cx > right_band THEN "right"
        ELSE None

\* the dead zone and the band tests
classify(cx, cy, w, h) ==
    LET margin_x == w \div 4
        margin_y == h \div 4
        left_band == margin_x
        right_band == w - margin_x
        top_band == margin_y
        bottom_band == h - margin_y
    IN  IF cx < left_band THEN "left"
        ELSE IF cx > right_band THEN "right"
        ELSE IF cy < top_band THEN "up"
        ELSE IF cy > bottom_band THEN "down"
        ELSE None

\* new_dir: the direction detected in this frame
detect(contours) ==
    IF contours # <<>>
    THEN LET cnt == largest(contours)
         IN  IF cnt.area > MIN_AREA
             THEN classify(cnt.x + cnt.cw \div 2, cnt.y + cnt.ch \div 2, FRAME_W, FRAME_H)
             ELSE None
    ELSE None

debounce_at_interval(ld, lt, new_dir, now) ==
    IF new_dir # None /\ (now - lt) >= DEBOUNCE
    THEN [last_dir |-> new_dir, last_time |-> now, wrote |-> TRUE]
    ELSE [last_dir |-> ld, last_time |-> lt, wrote |-> FALSE]

\* the debounce test and the write of last_dir, last_time
debounce(ld, lt, new_dir, now) ==
    IF new_dir # None /\ (now - lt) > DEBOUNCE
    THEN [last_dir |-> new_dir, last_time |-> now, wrote |-> TRUE]
    ELSE [last_dir |-> ld, last_time |-> lt, wrote |-> FALSE]

get_direction_returns_detected(ld, lt, frame, now, key) ==
    IF ~frame.ok
    THEN [last_dir |-> ld, last_time |-> lt, wrote |-> FALSE, release |-> FALSE,
          new_dir |-> None, ret |-> None]
    ELSE LET d == debounce(ld, lt, detect(frame.contours), now)
         IN  [last_dir |-> d.last_dir, last_time |-> d.last_time, wrote |-> d.wrote,
              release |-> (key = "q"), new_dir |-> detect(frame.contours),
              ret |-> IF key = "q" THEN None ELSE detect(frame.contours)]

\* get_direction: the new globals, whether the capture is released, the result
get_direction(ld, lt, frame, now, key) ==
    IF ~frame.ok
    THEN [last_dir |-> ld, last_time |-> lt, wrote |-> FALSE, release |-> FALSE,
          new_dir |-> None, ret |-> None]
    ELSE LET d == debounce(ld, lt, detect(frame.contours), now)
         IN  [last_dir |-> d.last_dir, last_time |-> d.last_time, wrote |-> d.wrote,
              release |-> (key = "q"), new_dir |-> detect(frame.contours),
              ret |-> IF key = "q" THEN None ELSE d.last_dir]

\* the globals and the record of a get_direction call made at time now
CallUpdate(frame, now, key) ==
    LET r == get_direction(last_dir, last_time, frame, now, key)
    IN  /\ last_dir' = r.last_dir
        /\ last_time' = r.last_time
        /\ cap_open' = (cap_open /\ ~r.release)
        /\ ret' = r.ret
        /\ call_new_dir' = r.new_dir
        /\ clock' = now
        /\ accepts' = IF r.wrote
                      THEN Append(accepts, [time |-> now, dir |-> r.last_dir])
                      ELSE accepts
        /\ calls' = IF calls < 2 THEN calls + 1 ELSE calls
        /\ call_frame' = frame
        /\ call_key' = IF frame.ok THEN key ELSE None
        /\ pre_last_dir' = last_dir
        /\ pre_last_time' = last_time

\* one call of get_direction; a released capture gives no frame
DetectorCall(frame, dt, key) ==
    /\ harness = "detector"
    /\ clock + dt <= MaxTime
    /\ cap_open \/ ~frame.ok
    /\ CallUpdate(frame, clock + dt, key)
    /\ UNCHANGED gvars

----------------------------------------------------------------------------
\* Screens.  Each returns what the function returns for one event, or "wait"
\* when the event leaves it looping.

start_screen_close_starts(e) ==
    IF e = "QUIT" THEN "True"
    ELSE IF e = "K_SPACE" THEN "True"
    ELSE "wait"

start_screen(e) ==
    IF e = "QUIT" THEN "False"
    ELSE IF e = "K_SPACE" THEN "True"
    ELSE "wait"

game_over_screen(e) ==
    IF e = "QUIT" THEN "quit"
    ELSE IF e = "K_r" THEN "restart"
    ELSE IF e = "K_q" THEN "quit"
    ELSE "wait"

----------------------------------------------------------------------------
\* run_game

\* the event loop of one gameplay tick: [direction, running]
RECURSIVE handle_events(_, _, _)
handle_events(evs, dir, running) ==
    IF evs = <<>> THEN [direction |-> dir, running |-> running]
    ELSE IF Head(evs) = "QUIT" THEN handle_events(Tail(evs), dir, FALSE)
    ELSE IF IsKeyDown(Head(evs))
         THEN handle_events(Tail(evs), change_direction(dir, keys_get(Head(evs))), running)
    ELSE handle_events(Tail(evs), dir, running)

callback_override_default_right(dir, cbres) ==
    change_direction(dir, IF cbres # None THEN cbres ELSE "right")

\* "change_direction(direction_callback() or direction)"
callback_override(dir, cbres) ==
    change_direction(dir, IF cbres # None THEN cbres ELSE dir)

\* the programs that call run_game: snake_game.py and main.py
GamePrograms == {"game", "main"}

EventSeqs(n) == UNION {[1 .. k -> Events] : k \in 0 .. n}

NewRound_keeps_direction(why) ==
    /\ state' = "PLAYING"
    /\ direction' = direction
    /\ snake' = Snake_init
    /\ food' \in FoodCells
    /\ ticks' = 0
    /\ events_used' = 0
    /\ pre_snake' = Snake_init
    /\ pre_food' = food'
    /\ moved_snake' = Snake_init
    /\ prev_move_dir' = None
    /\ collided' = FALSE
    /\ eaten' = 0
    /\ draws' = 1
    /\ tick_arrows' = FALSE
    /\ tick_kbd_dir' = None
    /\ tick_dir0' = None
    /\ cause' = why
    /\ UNCHANGED <<harness, move_dir, window_closed, pre_direction, request>>

\* top of the restart loop: direction, Snake(), Food(), running
NewRound(why) ==
    /\ state' = "PLAYING"
    /\ direction' = "right"
    /\ snake' = Snake_init
    /\ food' \in FoodCells
    /\ ticks' = 0
    /\ events_used' = 0
    /\ pre_snake' = Snake_init
    /\ pre_food' = food'
    /\ moved_snake' = Snake_init
    /\ prev_move_dir' = None
    /\ collided' = FALSE
    /\ eaten' = 0
    /\ draws' = 1
    /\ tick_arrows' = FALSE
    /\ tick_kbd_dir' = None
    /\ tick_dir0' = None
    /\ cause' = why
    /\ UNCHANGED <<harness, move_dir, window_closed, pre_direction, request>>

\* start_screen handling one event, and run_game acting on its result
StartScreen(e) ==
    /\ harness \in GamePrograms
    /\ state = "START"
    /\ CASE start_screen(e) = "False" ->
              /\ state' = "TERMINAL"
              /\ cause' = e
              /\ window_closed' = TRUE
              /\ UNCHANGED <<direction, snake, food, ticks, events_used,
                             harness, pre_snake, pre_food, moved_snake, move_dir,
                             prev_move_dir, collided, eaten, draws, tick_arrows, tick_kbd_dir,
                             tick_dir0, pre_direction, request>>
         [] start_screen(e) = "True" -> NewRound(e)
         [] OTHER -> UNCHANGED gvars
    /\ UNCHANGED dvars

\* game_over_screen handling one event, and run_game acting on its result
GameOverScreen(e) ==
    /\ harness \in GamePrograms
    /\ state = "GAME_OVER"
    /\ CASE game_over_screen(e) = "quit" ->
              /\ state' = "TERMINAL"
              /\ cause' = e
              /\ window_closed' = (window_closed \/ e = "QUIT")
              /\ UNCHANGED <<direction, snake, food, ticks, events_used,
                             harness, pre_snake, pre_food, moved_snake, move_dir,
                             prev_move_dir, collided, eaten, draws, tick_arrows, tick_kbd_dir,
                             tick_dir0, pre_direction, request>>
         [] game_over_screen(e) = "restart" -> NewRound(e)
         [] OTHER -> UNCHANGED gvars
    /\ UNCHANGED dvars

step_eats_on_column(coords, fd, dir) ==
    LET m    == move(coords, dir)
        hit  == check_collision(m)
        eats == ~hit /\ m[1][1] = fd[1]
    IN  [moved |-> m, hit |-> hit, eats |-> eats,
         snake |-> IF eats THEN grow(m) ELSE m]

step_food_first(coords, fd, dir) ==
    LET m    == move(coords, dir)
        eats == m[1] = fd
        g    == IF eats THEN grow(m) ELSE m
        hit  == check_collision(g)
    IN  [moved |-> m, hit |-> hit, eats |-> eats, snake |-> g]

\* the tick from snake.move() to the food check
step(coords, fd, dir) ==
    LET m    == move(coords, dir)
        hit  == check_collision(m)
        eats == ~hit /\ m[1] = fd
    IN  [moved |-> m, hit |-> hit, eats |-> eats,
         snake |-> IF eats THEN grow(m) ELSE m]

\* the rest of a gameplay tick once its direction is settled
Play(evs, running, dir) ==
    LET t == step(snake, food, dir)
    IN  /\ direction' = dir
        /\ snake' = t.snake
        /\ food' \in IF t.eats THEN FoodCells ELSE {food}
        /\ state' = IF t.hit \/ ~running THEN "GAME_OVER" ELSE "PLAYING"
        /\ cause' = IF t.hit THEN "collision"
                    ELSE IF ~running THEN "QUIT" ELSE cause
        /\ window_closed' = (window_closed \/ contains(evs, "QUIT"))
        /\ ticks' = ticks + 1
        /\ events_used' = events_used + Len(evs)
        /\ pre_snake' = snake
        /\ pre_food' = food
        /\ moved_snake' = t.moved
        /\ prev_move_dir' = IF ticks = 0 THEN None ELSE move_dir
        /\ move_dir' = dir
        /\ collided' = t.hit
        /\ eaten' = IF t.eats THEN eaten + 1 ELSE eaten
        /\ draws' = IF t.eats THEN draws + 1 ELSE draws

\* one iteration of the gameplay loop, without a direction callback
Tick(evs) ==
    /\ harness = "game"
    /\ state = "PLAYING"
    /\ ticks < MaxTicks
    /\ LET h == handle_events(evs, direction, TRUE)
       IN  Play(evs, h.running, h.direction)
    /\ UNCHANGED <<harness, tick_arrows, tick_kbd_dir, tick_dir0, pre_direction, request>>
    /\ UNCHANGED dvars

\* clock.tick(SPEED): the time one gameplay tick takes, in tenths of a second
TickDt == 10 \div SPEED

\* the frames explored when main.py runs
MainFrames ==
    {NoFrame, Frame(<<>>),
     Frame(<<Blob(79, 120, MIN_AREA + 1)>>), Frame(<<Blob(241, 120, MIN_AREA + 1)>>),
     Frame(<<Blob(160, 59, MIN_AREA + 1)>>), Frame(<<Blob(160, 181, MIN_AREA + 1)>>)}

\* one iteration of the gameplay loop with direction_callback = get_direction
MainTick(evs, frame, key) ==
    /\ harness = "main"
    /\ state = "PLAYING"
    /\ ticks < MaxTicks
    /\ clock + TickDt <= MaxMainTime
    /\ cap_open \/ ~frame.ok
    /\ CallUpdate(frame, clock + TickDt, key)
    /\ LET h == handle_events(evs, direction, TRUE)
           r == get_direction(last_dir, last_time, frame, clock + TickDt, key)
       IN  Play(evs, h.running, callback_override(h.direction, r.ret))
    /\ tick_arrows' = (\E i \in 1 .. Len(evs) : keys_get(evs[i]) # None)
    /\ tick_kbd_dir' = handle_events(evs, direction, TRUE).direction
    /\ tick_dir0' = direction
    /\ UNCHANGED <<harness, pre_direction, request>>

DetInit ==
    /\ last_dir = None
    /\ last_time = 0
    /\ cap_open = TRUE
    /\ clock = StartTime
    /\ calls = 0
    /\ call_frame = NoFrame
    /\ call_key = None
    /\ pre_last_dir = None
    /\ pre_last_time = 0
    /\ ret = None
    /\ call_new_dir = None
    /\ accepts = <<>>

GameInit ==
    /\ state = "START"
    /\ direction = "right"
    /\ snake = Snake_init
    /\ food = <<0, 0>>
    /\ ticks = 0
    /\ events_used = 0
    /\ pre_snake = Snake_init
    /\ pre_food = <<0, 0>>
    /\ moved_snake = Snake_init
    /\ move_dir = None
    /\ prev_move_dir = None
    /\ collided = FALSE
    /\ eaten = 0
    /\ draws = 0
    /\ tick_arrows = FALSE
    /\ tick_kbd_dir = None
    /\ tick_dir0 = None
    /\ cause = None
    /\ window_closed = FALSE
    /\ pre_direction = None
    /\ request = None

\* snake_game.py run as a script: run_game()
Init ==
    /\ harness = "game"
    /\ GameInit
    /\ DetInit

Next ==
    \/ \E e \in Events : StartScreen(e)
    \/ \E e \in Events : GameOverScreen(e)
    \/ \E evs \in EventSeqs(MaxRoundEvents - events_used) : Tick(evs)

Spec == Init /\ [][Next]_vars

\* one iteration of the gameplay loop when the event queue is empty
IdleTick ==
    /\ harness = "game"
    /\ state = "PLAYING"
    /\ LET h == handle_events(<<>>, direction, TRUE)
       IN  Play(<<>>, h.running, h.direction)
    /\ UNCHANGED <<harness, tick_arrows, tick_kbd_dir, tick_dir0, pre_direction, request>>
    /\ UNCHANGED dvars

\* run_game() with no event delivered while a round is played; the
\* gameplay loop keeps running
NextIdle ==
    \/ \E e \in Events : StartScreen(e)
    \/ \E e \in Events : GameOverScreen(e)
    \/ IdleTick

SpecIdle == Init /\ [][NextIdle]_vars /\ WF_vars(IdleTick)

\* main.py: run_game(direction_callback=get_direction)
InitMain ==
    /\ harness = "main"
    /\ GameInit
    /\ DetInit

NextMain ==
    \/ \E e \in Events : StartScreen(e)
    \/ \E e \in Events : GameOverScreen(e)
    \/ \E evs \in EventSeqs(MaxMainEvents - events_used),
          frame \in MainFrames, key \in WaitKeys : MainTick(evs, frame, key)

SpecMain == InitMain /\ [][NextMain]_vars

----------------------------------------------------------------------------
\* Unit harness: change_direction and Snake.move applied to drawn inputs

UnitCells == {<<0, 0>>, <<100, 100>>, <<GAME_WIDTH - SPACE_SIZE, GAME_HEIGHT - SPACE_SIZE>>}

UnitSnakes == UNION {[1 .. n -> UnitCells] : n \in 1 .. MaxLen}

InitUnit ==
    /\ harness = "unit"
    /\ state = "UNIT"
    /\ direction \in Directions
    /\ snake \in UnitSnakes
    /\ food = <<0, 0>>
    /\ ticks = 0
    /\ events_used = 0
    /\ pre_snake = snake
    /\ pre_food = <<0, 0>>
    /\ moved_snake = snake
    /\ move_dir = None
    /\ prev_move_dir = None
    /\ collided = FALSE
    /\ eaten = 0
    /\ draws = 0
    /\ tick_arrows = FALSE
    /\ tick_kbd_dir = None
    /\ tick_dir0 = None
    /\ cause = None
    /\ window_closed = FALSE
    /\ pre_direction = None
    /\ request = None
    /\ DetInit

\* change_direction(r) called on the current global
UnitChangeDirection(r) ==
    /\ harness = "unit"
    /\ ticks = 0
    /\ direction' = change_direction(direction, r)
    /\ pre_direction' = direction
    /\ request' = r
    /\ UNCHANGED <<state, snake, food, ticks, events_used, harness, pre_snake,
                   pre_food, moved_snake, move_dir, prev_move_dir, collided,
                   eaten, draws, tick_arrows, tick_kbd_dir, tick_dir0, cause, window_closed>>
    /\ UNCHANGED dvars

\* snake.move() called once
UnitMove ==
    /\ harness = "unit"
    /\ ticks = 0
    /\ snake' = move(snake, direction)
    /\ pre_snake' = snake
    /\ moved_snake' = snake'
    /\ move_dir' = direction
    /\ ticks' = 1
    /\ UNCHANGED <<state, direction, food, events_used, harness, pre_food,
                   prev_move_dir, collided, eaten, draws, tick_arrows, tick_kbd_dir, tick_dir0,
                   cause, window_closed, pre_direction, request>>
    /\ UNCHANGED dvars

NextUnit ==
    \/ \E r \in Requests : UnitChangeDirection(r)
    \/ UnitMove

SpecUnit == InitUnit /\ [][NextUnit]_vars

\* get_direction called again and again, as by the loops of
\* camera_movement.py and run_game
InitDetector ==
    /\ harness = "detector"
    /\ GameInit
    /\ DetInit

NextDetector ==
    \E frame \in Frames, dt \in 0 .. MaxDt, key \in WaitKeys :
        DetectorCall(frame, dt, key)

SpecDetector == InitDetector /\ [][NextDetector]_vars

----------------------------------------------------------------------------
\* Claims

\* C1: change_direction(r) leaves the direction as it was when r is the exact
\* opposite of the current direction or None, and sets it to r otherwise.
C1_ChangeDirection ==
    (harness = "unit" /\ pre_direction # None) =>
        direction =
            IF request = None THEN pre_direction
            ELSE IF <<pre_direction, request>> \in
                      {<<"up", "down">>, <<"down", "up">>,
                       <<"left", "right">>, <<"right", "left">>}
                 THEN pre_direction
            ELSE request

C1_Witness ==
    /\ harness = "unit"
    /\ pre_direction = "right"
    /\ request = "left"
    /\ direction = "right"

\* C2: within a round the direction used by a move is never the exact
\* opposite of the direction used by the previous move, and the first move
\* of a round is never "left".
C2_NeverReverses ==
    (harness = "game" /\ state \in {"PLAYING", "GAME_OVER"} /\ ticks >= 1) =>
        <<IF prev_move_dir = None THEN "right" ELSE prev_move_dir, move_dir>> \notin
            {<<"up", "down">>, <<"down", "up">>,
             <<"left", "right">>, <<"right", "left">>}

\* C3: a move that puts the head outside the board or on another segment
\* ends the round in that tick; any other move does not end it by collision.
C3_HeadOut ==
    \/ moved_snake[1][1] < 0
    \/ moved_snake[1][1] >= 600
    \/ moved_snake[1][2] < 0
    \/ moved_snake[1][2] >= 400

C3_HeadOnBody == \E i \in 2 .. Len(moved_snake) : moved_snake[i] = moved_snake[1]

C3_CollisionEndsRound ==
    (harness = "game" /\ state \in {"PLAYING", "GAME_OVER"} /\ ticks >= 1) =>
        IF C3_HeadOut \/ C3_HeadOnBody
        THEN state = "GAME_OVER" /\ collided /\ cause = "collision"
        ELSE ~collided /\ (state = "GAME_OVER" => cause = "QUIT")

C3_Witness ==
    /\ harness = "game"
    /\ state = "GAME_OVER"
    /\ collided
    /\ C3_HeadOnBody
    /\ ~C3_HeadOut

\* C4: a non-colliding tick whose head lands on the food cell lengthens the
\* snake by exactly one, any other non-colliding tick keeps its length, and
\* after k consumptions in a round the length is 2 + k.
C4_GrowthByFood ==
    (harness = "game" /\ state \in {"PLAYING", "GAME_OVER"}) =>
        /\ Len(snake) = 2 + eaten
        /\ (ticks >= 1 /\ ~collided) =>
              Len(snake) = Len(pre_snake) + (IF moved_snake[1] = pre_food THEN 1 ELSE 0)
        /\ (ticks >= 1 /\ collided) => Len(snake) = Len(pre_snake)

C4_Witness ==
    /\ harness = "game"
    /\ state = "PLAYING"
    /\ eaten = 2
    /\ Len(snake) = 4
    /\ moved_snake[1] = pre_food

\* C5: move() puts the old head displaced by one cell (20) in the direction
\* in front of the first n-1 old elements; the length stays n.
C5_Displaced ==
    CASE move_dir = "up"    -> <<pre_snake[1][1], pre_snake[1][2] - 20>>
      [] move_dir = "down"  -> <<pre_snake[1][1], pre_snake[1][2] + 20>>
      [] move_dir = "left"  -> <<pre_snake[1][1] - 20, pre_snake[1][2]>>
      [] move_dir = "right" -> <<pre_snake[1][1] + 20, pre_snake[1][2]>>

C5_Move ==
    (harness = "unit" /\ ticks = 1) =>
        /\ Len(snake) = Len(pre_snake)
        /\ snake[1] = C5_Displaced
        /\ \A i \in 2 .. Len(snake) : snake[i] = pre_snake[i - 1]

C5_Witness ==
    /\ harness = "unit"
    /\ ticks = 1
    /\ Len(pre_snake) = MaxLen
    /\ move_dir = "up"
    /\ snake[1] = <<100, 80>>

\* C6 (as stated): the only transitions are START -> PLAYING (SPACE),
\* PLAYING -> GAME_OVER, GAME_OVER -> PLAYING (R), GAME_OVER -> TERMINAL (quit).
C6_StatedTransitions ==
    {<<"START", "K_SPACE", "PLAYING">>,
     <<"PLAYING", "collision", "GAME_OVER">>,
     <<"PLAYING", "QUIT", "GAME_OVER">>,
     <<"GAME_OVER", "K_r", "PLAYING">>,
     <<"GAME_OVER", "K_q", "TERMINAL">>,
     <<"GAME_OVER", "QUIT", "TERMINAL">>}

C6_OnlyStatedTransitions ==
    [][state' # state => <<state, cause', state'>> \in C6_StatedTransitions]_vars

\* C6 (amended): the transitions are those stated and START -> TERMINAL on a
\* window close; TERMINAL is entered only from START or GAME_OVER, and
\* PLAYING is left only into GAME_OVER.
C6_Transitions ==
    [][state' # state =>
          <<state, cause', state'>> \in
              C6_StatedTransitions \cup {<<"START", "QUIT", "TERMINAL">>}]_vars

C6_Witness ==
    /\ harness = "game"
    /\ state = "TERMINAL"
    /\ cause = "QUIT"
    /\ ticks = 0

\* C7: once a window-close event has been handled, in START, PLAYING or
\* GAME_OVER, the game is in the terminal state with no further input.
C7_CloseExits ==
    (harness = "game" /\ window_closed) => state = "TERMINAL"

\* C8: two writes of the stable direction are more than the debounce
\* interval (0.3 s) apart, and a call made within the interval of the last
\* write leaves the stable direction and the last-update time as they were.
C8_Debounce ==
    (harness = "detector") =>
        /\ \A i \in 1 .. Len(accepts) : \A j \in 1 .. Len(accepts) :
              i < j => accepts[j].time - accepts[i].time > 3
        /\ (calls >= 1 /\ clock - pre_last_time <= 3) =>
              (last_dir = pre_last_dir /\ last_time = pre_last_time)

C8_Witness ==
    /\ harness = "detector"
    /\ Len(accepts) >= 2
    /\ accepts[2].time - accepts[1].time = 4
    /\ accepts[1].dir # accepts[2].dir

\* C9: a frame whose largest qualifying blob has its centre in the dead zone
\* (80 <= cx <= 240 and 60 <= cy <= 180), at whatever time, leaves the
\* reported direction and the last-update time as they were.
C9_CentreInDeadZone ==
    /\ call_frame.ok
    /\ call_frame.contours # <<>>
    /\ LET b == largest(call_frame.contours)
       IN  /\ b.area > 300
           /\ 80 <= b.x + b.cw \div 2
           /\ b.x + b.cw \div 2 <= 240
           /\ 60 <= b.y + b.ch \div 2
           /\ b.y + b.ch \div 2 <= 180

C9_DeadZone ==
    (harness = "detector" /\ calls >= 1 /\ C9_CentreInDeadZone) =>
        /\ last_dir = pre_last_dir
        /\ last_time = pre_last_time
        /\ (call_key # "q" => ret = pre_last_dir)

C9_Witness ==
    /\ harness = "detector"
    /\ calls >= 2
    /\ C9_CentreInDeadZone
    /\ largest(call_frame.contours).x + 10 = 80
    /\ clock - pre_last_time > 3
    /\ pre_last_dir = "right"
    /\ ret = "right"

\* C10: a call that captures a frame and sees no quit key returns the last
\* accepted direction, or None when none was ever accepted; a frame with no
\* contour or a largest contour of area <= 300 leaves it unchanged.
C10_NoQualifyingBlob ==
    /\ call_frame.ok
    /\ \/ call_frame.contours = <<>>
       \/ \A i \in 1 .. Len(call_frame.contours) : call_frame.contours[i].area <= 300

C11_CaptureFailure ==
    (harness = "main" /\ state \in {"PLAYING", "GAME_OVER"} /\ ticks >= 1
       /\ ~call_frame.ok) =>
        /\ ret = None
        /\ last_dir = pre_last_dir
        /\ last_time = pre_last_time
        /\ move_dir = tick_kbd_dir
        /\ ~tick_arrows => move_dir = tick_dir0
        /\ Len(moved_snake) = Len(pre_snake)
        /\ moved_snake[1] =
              CASE move_dir = "up"    -> <<pre_snake[1][1], pre_snake[1][2] - 20>>
                [] move_dir = "down"  -> <<pre_snake[1][1], pre_snake[1][2] + 20>>
                [] move_dir = "left"  -> <<pre_snake[1][1] - 20, pre_snake[1][2]>>
                [] move_dir = "right" -> <<pre_snake[1][1] + 20, pre_snake[1][2]>>

C11_Witness ==
    /\ harness = "main"
    /\ state = "PLAYING"
    /\ ticks >= 1
    /\ ~call_frame.ok
    /\ cap_open
    /\ last_dir = "up"
    /\ tick_arrows
    /\ move_dir = "left"

\* C12: with a direction callback, the direction used by a tick's move is the
\* one the callback's result gives from the direction the tick began with,
\* whatever keyboard events the tick handled.
C12_CallbackDecides ==
    (harness = "main" /\ state \in {"PLAYING", "GAME_OVER"} /\ ticks >= 1
       /\ ret # None) =>
        move_dir =
            IF <<tick_dir0, ret>> \in
                  {<<"up", "down">>, <<"down", "up">>,
                   <<"left", "right">>, <<"right", "left">>}
            THEN tick_dir0
            ELSE ret

\* C13: for a qualifying blob centre (cx, cy) in the 320 x 240 frame, the
\* direction detected is left if cx < 80, else right if cx > 240, else up if
\* cy < 60, else down if cy > 180, else None; a corner goes by its column.
C13_Qualifying ==
    /\ call_frame.ok
    /\ call_frame.contours # <<>>
    /\ largest(call_frame.contours).area > 300

C13_Cx == largest(call_frame.contours).x + largest(call_frame.contours).cw \div 2

C13_Cy == largest(call_frame.contours).y + largest(call_frame.contours).ch \div 2

C13_Classification ==
    (harness = "detector" /\ calls >= 1 /\ C13_Qualifying) =>
        call_new_dir =
            IF C13_Cx < 320 \div 4 THEN "left"
            ELSE IF C13_Cx > 320 - 320 \div 4 THEN "right"
            ELSE IF C13_Cy < 240 \div 4 THEN "up"
            ELSE IF C13_Cy > 240 - 240 \div 4 THEN "down"
            ELSE None

C13_Witness ==
    /\ harness = "detector"
    /\ calls >= 1
    /\ C13_Qualifying
    /\ C13_Cx = 79
    /\ C13_Cy = 59
    /\ call_new_dir = "left"

\* C14: every round, the first and every one entered by restart, begins with
\* direction "right" and the snake [[100,100],[80,100]], whatever the
\* previous round left.
C14_RoundStart ==
    (harness = "game" /\ state = "PLAYING" /\ ticks = 0) =>
        /\ direction = "right"
        /\ snake = <<<<100, 100>>, <<80, 100>>>>

C14_Witness ==
    /\ harness = "game"
    /\ state = "PLAYING"
    /\ ticks = 0
    /\ cause = "K_r"
    /\ move_dir = "up"
    /\ direction = "right"
    /\ snake = <<<<100, 100>>, <<80, 100>>>>

\* C15: in every state of a round there is one food cell, grid-aligned and
\* inside the board; a tick that goes on to the food check draws a new cell
\* exactly when the head has landed on the food, and the draw may fall on a
\* cell the snake holds.
C15_DrawnInTick == draws - (Len(pre_snake) - 1)

C16_Rendered ==
    /\ harness = "game"
    /\ \/ state = "PLAYING"
       \/ state = "GAME_OVER" /\ ~collided

C16_AteInTick == ticks >= 1 /\ moved_snake[1] = pre_food

C16_DistinctUpTo(n) ==
    \A i \in 1 .. n : \A j \in 1 .. n : i # j => snake[i] # snake[j]

C16_Distinct ==
    C16_Rendered =>
        IF C16_AteInTick
        THEN /\ snake[Len(snake)] = snake[Len(snake) - 1]
             /\ C16_DistinctUpTo(Len(snake) - 1)
        ELSE C16_DistinctUpTo(Len(snake))

C16_Witness ==
    /\ C16_Rendered
    /\ ~C16_AteInTick
    /\ eaten >= 1
    /\ Len(pre_snake) >= 3
    /\ pre_snake[Len(pre_snake)] = pre_snake[Len(pre_snake) - 1]
    /\ C16_DistinctUpTo(Len(snake))

\* C17: a move whose head lands on a cell holding both the food and another
\* segment ends the round without growing the snake or drawing new food.
C17_CollisionBeforeFood ==
    (harness = "game" /\ state \in {"PLAYING", "GAME_OVER"} /\ ticks >= 1
       /\ moved_snake[1] = pre_food
       /\ \E i \in 2 .. Len(moved_snake) : moved_snake[i] = moved_snake[1]) =>
        /\ state = "GAME_OVER"
        /\ cause = "collision"
        /\ snake = moved_snake
        /\ Len(snake) = Len(pre_snake)
        /\ C15_DrawnInTick = 0
        /\ food = pre_food

C17_Witness ==
    /\ harness = "game"
    /\ state = "GAME_OVER"
    /\ collided
    /\ moved_snake[1] = pre_food
    /\ \E i \in 2 .. Len(moved_snake) : moved_snake[i] = moved_snake[1]

\* C18: in every rendered state of a round every segment is grid-aligned
\* (multiples of 20) and inside the board (0 <= x < 600, 0 <= y < 400).
C18_OnBoard ==
    C16_Rendered =>
        \A i \in 1 .. Len(snake) :
            /\ snake[i][1] % 20 = 0 /\ 0 <= snake[i][1] /\ snake[i][1] < 600
            /\ snake[i][2] % 20 = 0 /\ 0 <= snake[i][2] /\ snake[i][2] < 400

C18_Witness ==
    /\ C16_Rendered
    /\ state = "PLAYING"
    /\ snake[1][2] = 0
    /\ move_dir = "up"

\* C19: in every state of a round consecutive segments are one cell apart
\* along one axis, or the same cell; the body is never disconnected.
C19_Connected ==
    (harness = "game" /\ state \in {"PLAYING", "GAME_OVER"}) =>
        \A i \in 1 .. Len(snake) - 1 :
            LET dx == snake[i][1] - snake[i + 1][1]
                dy == snake[i][2] - snake[i + 1][2]
            IN  <<dx, dy>> \in {<<0, 0>>, <<20, 0>>, <<-20, 0>>, <<0, 20>>, <<0, -20>>}

C19_Witness ==
    /\ harness = "game"
    /\ state = "PLAYING"
    /\ Len(snake) = 4
    /\ snake[1][1] # snake[3][1]
    /\ snake[1][2] # snake[3][2]
    /\ snake[3] = snake[4]

\* C20: with no callback and no keyboard event the snake keeps moving right
\* from x = 100 and every round ends in GAME_OVER by wall collision on the
\* 25th tick, whether or not food was consumed on the way.
C20_Straight ==
    harness = "game" =>
        /\ state = "PLAYING" =>
              /\ ticks < 25
              /\ direction = "right"
              /\ snake[1] = <<100 + 20 * ticks, 100>>
        /\ state = "GAME_OVER" =>
              /\ ticks = 25
              /\ collided
              /\ cause = "collision"
              /\ moved_snake[1] = <<600, 100>>

C20_IdleRoundEnds ==
    /\ []C20_Straight
    /\ (state = "PLAYING") ~> (state = "GAME_OVER")

C20_Witness ==
    /\ harness = "game"
    /\ state = "GAME_OVER"
    /\ ticks = 25
    /\ collided
    /\ eaten >= 1
    /\ Len(snake) = 2 + eaten

====
